---- MODULE Spec2Model ----
(***************************************************************************)
(* Landmark feature pipeline of sign_language_extractor:                   *)
(*   - extract_landmarks (utils.py, batch_process_videos.py): the encoder  *)
(*   - create_npy_dataset.main: selector, normalizer, dataset assembler    *)
(*   - process_video / process_video_file: the sequence recorders          *)
(***************************************************************************)
EXTENDS Integers, Sequences, FiniteSets, TLC

(* ---------------- landmark constants (utils.py 19-22) ------------------ *)
NUM_POSE_LANDMARKS == 33
NUM_FACE_LANDMARKS == 468
NUM_HAND_LANDMARKS == 21
TOTAL_FEATURES == (NUM_POSE_LANDMARKS + NUM_FACE_LANDMARKS + 2 * NUM_HAND_LANDMARKS) * 3

(* ---------------- bounds of the model ---------------------------------- *)
\* a present group supplies its cardinality +/- at most MaxDelta points (or none)
MaxDelta == 1
\* a directory holds at most MaxFiles sequence files
MaxFiles == 2
\* a well-formed sequence file holds MaxFrames - 1 or MaxFrames frames
MaxFrames == 2
\* --max_len ranges over -1..MaxLenArg
MaxLenArg == 2
\* a video holds at most MaxVideoFrames frames
MaxVideoFrames == 2
\* the clock runs through the seconds 0..MaxClock
MaxClock == 1
\* clients 1..MaxClients send process_frame events
MaxClients == 2

Groups == {"Pose", "Face", "LeftHand", "RightHand"}

\* fixed cardinality of a landmark group
NumLandmarks(g) ==
  CASE g = "Pose" -> NUM_POSE_LANDMARKS
    [] g = "Face" -> NUM_FACE_LANDMARKS
    [] g = "LeftHand" -> NUM_HAND_LANDMARKS
    [] g = "RightHand" -> NUM_HAND_LANDMARKS

GroupTag(g) ==
  CASE g = "Pose" -> 1 [] g = "Face" -> 2 [] g = "LeftHand" -> 3 [] g = "RightHand" -> 4

(* ---------------- detector output -------------------------------------- *)
\* the i-th landmark the detector reports for group g: three coordinates,
\* nonzero and different for every group, point and axis
Landmark(g, i) ==
  [x |-> GroupTag(g) * 100000 + 10 * i + 1,
   y |-> GroupTag(g) * 100000 + 10 * i + 2,
   z |-> GroupTag(g) * 100000 + 10 * i + 3]

\* results.<g>_landmarks: None (absent) or a landmark list of n points
NoLandmarks == [present |-> FALSE, landmark |-> <<>>]
LandmarkList(g, n) == [present |-> TRUE, landmark |-> [i \in 1..n |-> Landmark(g, i)]]

PointCounts(g) == {0} \cup ((NumLandmarks(g) - MaxDelta)..(NumLandmarks(g) + MaxDelta))

GroupOutputs(g) == {NoLandmarks} \cup {LandmarkList(g, n) : n \in PointCounts(g)}

\* every record holistic.process can hand to extract_landmarks
DetectorOutputs ==
  [pose_landmarks : GroupOutputs("Pose"),
   face_landmarks : GroupOutputs("Face"),
   left_hand_landmarks : GroupOutputs("LeftHand"),
   right_hand_landmarks : GroupOutputs("RightHand")]

(* ---------------- numpy helpers ---------------------------------------- *)
\* np.zeros(n)
Zeros(n) == [k \in 1..n |-> 0]

\* np.array([[res.x, res.y, res.z] for res in lst]).flatten()
Flatten(lst) ==
  [k \in 1..(3 * Len(lst)) |->
     LET p == lst[((k - 1) \div 3) + 1]
         c == (k - 1) % 3
     IN IF c = 0 THEN p.x ELSE IF c = 1 THEN p.y ELSE p.z]

\* one group's block: the flattened list if truthy, zeros of the group's length otherwise
GroupBlock(field, n) == IF field.present THEN Flatten(field.landmark) ELSE Zeros(n * 3)

\* (variant of Concatenate: the two hand blocks in the wrong order)
ConcatenateHandsSwapped(results) ==
  GroupBlock(results.pose_landmarks, NUM_POSE_LANDMARKS)
    \o GroupBlock(results.face_landmarks, NUM_FACE_LANDMARKS)
    \o GroupBlock(results.right_hand_landmarks, NUM_HAND_LANDMARKS)
    \o GroupBlock(results.left_hand_landmarks, NUM_HAND_LANDMARKS)

\* np.concatenate([pose, face, lh, rh])
Concatenate(results) ==
  GroupBlock(results.pose_landmarks, NUM_POSE_LANDMARKS)
    \o GroupBlock(results.face_landmarks, NUM_FACE_LANDMARKS)
    \o GroupBlock(results.left_hand_landmarks, NUM_HAND_LANDMARKS)
    \o GroupBlock(results.right_hand_landmarks, NUM_HAND_LANDMARKS)

\* (variant of FixSize: pads a short vector but leaves a long one as it is)
FixSizePadOnly(combined) ==
  IF Len(combined) < TOTAL_FEATURES
  THEN combined \o Zeros(TOTAL_FEATURES - Len(combined))
  ELSE combined

\* the size check: pad with trailing zeros if short, truncate the tail if long
FixSize(combined) ==
  IF Len(combined) # TOTAL_FEATURES
  THEN IF Len(combined) < TOTAL_FEATURES
       THEN combined \o Zeros(TOTAL_FEATURES - Len(combined))
       ELSE SubSeq(combined, 1, TOTAL_FEATURES)
  ELSE combined

\* utils.extract_landmarks
extract_landmarks(results) == FixSize(Concatenate(results))

\* batch_process_videos.extract_landmarks (its own copy of the constants and code)
BATCH_POSE_FEATURES == NUM_POSE_LANDMARKS * 3
BATCH_FACE_FEATURES == NUM_FACE_LANDMARKS * 3
BATCH_HAND_FEATURES == NUM_HAND_LANDMARKS * 3
BATCH_TOTAL_FEATURES == BATCH_POSE_FEATURES + BATCH_FACE_FEATURES + 2 * BATCH_HAND_FEATURES

batch_extract_landmarks(results) ==
  LET pose == IF results.pose_landmarks.present
              THEN Flatten(results.pose_landmarks.landmark) ELSE Zeros(BATCH_POSE_FEATURES)
      face == IF results.face_landmarks.present
              THEN Flatten(results.face_landmarks.landmark) ELSE Zeros(BATCH_FACE_FEATURES)
      lh == IF results.left_hand_landmarks.present
            THEN Flatten(results.left_hand_landmarks.landmark) ELSE Zeros(BATCH_HAND_FEATURES)
      rh == IF results.right_hand_landmarks.present
            THEN Flatten(results.right_hand_landmarks.landmark) ELSE Zeros(BATCH_HAND_FEATURES)
      combined == pose \o face \o lh \o rh
  IN IF Len(combined) # BATCH_TOTAL_FEATURES
     THEN IF Len(combined) < BATCH_TOTAL_FEATURES
          THEN combined \o Zeros(BATCH_TOTAL_FEATURES - Len(combined))
          ELSE SubSeq(combined, 1, BATCH_TOTAL_FEATURES)
     ELSE combined


(* ---------------- create_npy_dataset.py: constants ---------------------- *)
DS_NUM_POSE_LANDMARKS == 33
DS_NUM_FACE_LANDMARKS == 468
DS_NUM_HAND_LANDMARKS == 21

POSE_FEATURES == DS_NUM_POSE_LANDMARKS * 3
FACE_FEATURES == DS_NUM_FACE_LANDMARKS * 3
HAND_FEATURES == DS_NUM_HAND_LANDMARKS * 3

POSE_START == 0
POSE_END == POSE_FEATURES
FACE_START == POSE_END
FACE_END == POSE_END + FACE_FEATURES
LH_START == FACE_END
LH_END == FACE_END + HAND_FEATURES
RH_START == LH_END
RH_END == LH_END + HAND_FEATURES

TOTAL_FEATURES_EXPECTED == RH_END

\* (variant of LANDMARK_INFO: the two hand slices exchanged)
LANDMARK_INFO_HandsSwapped(name) ==
  CASE name = "Pose" -> [start |-> POSE_START, stop |-> POSE_END, features |-> POSE_FEATURES]
    [] name = "Face" -> [start |-> FACE_START, stop |-> FACE_END, features |-> FACE_FEATURES]
    [] name = "LeftHand" -> [start |-> RH_START, stop |-> RH_END, features |-> HAND_FEATURES]
    [] name = "RightHand" -> [start |-> LH_START, stop |-> LH_END, features |-> HAND_FEATURES]

\* LANDMARK_INFO[name]: slice(start, stop) and the feature count
LANDMARK_INFO(name) ==
  CASE name = "Pose" -> [start |-> POSE_START, stop |-> POSE_END, features |-> POSE_FEATURES]
    [] name = "Face" -> [start |-> FACE_START, stop |-> FACE_END, features |-> FACE_FEATURES]
    [] name = "LeftHand" -> [start |-> LH_START, stop |-> LH_END, features |-> HAND_FEATURES]
    [] name = "RightHand" -> [start |-> RH_START, stop |-> RH_END, features |-> HAND_FEATURES]

(* ---------------- create_npy_dataset.py: inputs -------------------------- *)
\* Numbers of a JSON file are doubles; the integer v stands for the double
\* v * 2^-150, so that the even integers are the doubles a float32 holds.
\* The k-th number of frame j of a recorded file:
Feature(seed, j, k) == 2 * (2000 * (j - 1) + k) + seed

Frame(seed, j, width) == [k \in 1..width |-> Feature(seed, j, k)]

\* what json.load finds in a file: a list of frames, something that is not
\* a list, or text that is not JSON
\* (the files of an odd number of frames hold doubles that are no float32 values)
WellFormedFiles ==
  {[kind |-> "list", data |-> [j \in 1..n |-> Frame(n % 2, j, TOTAL_FEATURES_EXPECTED)]] :
     n \in {MaxFrames - 1, MaxFrames}}

MalformedFiles ==
  {[kind |-> "invalid_json", data |-> <<>>],
   [kind |-> "not_list", data |-> <<>>],
   [kind |-> "list", data |-> <<>>],
   [kind |-> "list", data |-> <<Frame(0, 1, TOTAL_FEATURES_EXPECTED - 1)>>],
   [kind |-> "list", data |-> <<Frame(0, 1, TOTAL_FEATURES_EXPECTED),
                                Frame(0, 2, TOTAL_FEATURES_EXPECTED + 1)>>]}

JsonFiles == WellFormedFiles \cup MalformedFiles

\* --input_dir: not a directory, or a directory of *.json files; file names
\* are numbered in their sorted order
InputDirs ==
  {[is_dir |-> FALSE, files |-> <<>>]}
    \cup {[is_dir |-> TRUE, files |-> fs] : fs \in UNION {[1..n -> JsonFiles] : n \in 0..MaxFiles}}

\* --landmarks: one or more names out of LANDMARK_INFO.keys(), repeats allowed
LandmarkArgs ==
  {<<"Pose">>, <<"RightHand", "LeftHand">>, <<"LeftHand", "LeftHand">>,
   <<"Pose", "Face", "LeftHand", "RightHand">>, <<"RightHand", "LeftHand", "Face", "Pose">>}

\* --max_len: any int
MaxLenArgs == (-1)..MaxLenArg

(* ---------------- create_npy_dataset.py: helpers ------------------------- *)
\* a double converted to float32: round to nearest, ties to even
ToFloat32(v) ==
  IF v % 2 = 0 THEN v
  ELSE IF ((v - 1) \div 2) % 2 = 0 THEN v - 1 ELSE v + 1

\* (variant of IsRagged: only the first frame is looked at)
IsRaggedFirstFrameOnly(sequence_data) == FALSE

\* np.array(sequence_data, dtype=np.float32) raises ValueError on frames of unequal length
IsRagged(sequence_data) ==
  \E j \in 1..Len(sequence_data) : Len(sequence_data[j]) # Len(sequence_data[1])

\* (variant of np_array_float32: half the precision, the multiples of 4)
np_array_coarse(sequence_data) ==
  [j \in 1..Len(sequence_data) |->
     [k \in 1..Len(sequence_data[j]) |-> 4 * (sequence_data[j][k] \div 4)]]

\* np.array(sequence_data, dtype=np.float32) of a rectangular list
np_array_float32(sequence_data) ==
  [j \in 1..Len(sequence_data) |->
     [k \in 1..Len(sequence_data[j]) |-> ToFloat32(sequence_data[j][k])]]

\* the slices of LANDMARK_INFO for the names, in the order of the names
SlicesOf(names) == [i \in 1..Len(names) |-> LANDMARK_INFO(names[i])]

RECURSIVE SumFeatures(_)
SumFeatures(slices) ==
  IF slices = <<>> THEN 0 ELSE slices[1].features + SumFeatures(Tail(slices))

\* np.concatenate([row[s] for s in selected_slices]) for one row
RECURSIVE ConcatSlices(_, _)
ConcatSlices(row, slices) ==
  IF slices = <<>> THEN <<>>
  ELSE SubSeq(row, slices[1].start + 1, slices[1].stop) \o ConcatSlices(row, Tail(slices))

\* np.concatenate([sequence_array[:, s] for s in selected_slices], axis=1)
SelectFeatures(sequence_array, slices) ==
  [j \in 1..Len(sequence_array) |-> ConcatSlices(sequence_array[j], slices)]

\* (variant of PadOrTruncate: keeps the last frames and pads in front)
PadOrTruncateKeepLast(selected, maxlen, width) ==
  LET num_frames == Len(selected)
  IN IF num_frames = maxlen THEN selected
     ELSE IF num_frames > maxlen THEN SubSeq(selected, num_frames - maxlen + 1, num_frames)
     ELSE [i \in 1..(maxlen - num_frames) |-> Zeros(width)] \o selected

\* lines 114-128: passthrough, truncate the tail, or pad zero frames at the end
PadOrTruncate(selected, maxlen, width) ==
  LET num_frames == Len(selected)
  IN IF num_frames = maxlen THEN selected
     ELSE IF num_frames > maxlen THEN SubSeq(selected, 1, maxlen)
     ELSE selected \o [i \in 1..(maxlen - num_frames) |-> Zeros(width)]

\* (variant of Sorted: descending order)
RECURSIVE SortedDescending(_)
SortedDescending(names) ==
  IF names = {} THEN <<>>
  ELSE LET m == CHOOSE x \in names : \A y \in names : y <= x
       IN <<m>> \o SortedDescending(names \ {m})

\* sorted(list(input_path.glob('*.json')))
RECURSIVE Sorted(_)
Sorted(names) ==
  IF names = {} THEN <<>>
  ELSE LET m == CHOOSE x \in names : \A y \in names : x <= y
       IN <<m>> \o Sorted(names \ {m})

\* the checks of lines 88-103 on what json.load returned, before any array is
\* built: "ok", or the reason the file is passed over
LoadOutcome(file) ==
  IF file.kind = "invalid_json" THEN "json_decode_error"
  ELSE IF file.kind # "list" \/ file.data = <<>> THEN "skipped_empty_or_invalid"
  ELSE IF IsRagged(file.data) THEN "error_processing"
  ELSE IF Len(file.data[1]) # TOTAL_FEATURES_EXPECTED THEN "skipped_feature_count"
  ELSE "ok"

(* ---------------- state ------------------------------------------------- *)
VARIABLES
  results,    \* encoder: the detector output handed to extract_landmarks
  encoder,    \* encoder: which extract_landmarks ran last ("none", "utils", "batch")
  landmarks,  \* encoder: the vector it returned
  input_dir,                  \* assembler: --input_dir and the *.json files in it
  landmark_names,             \* assembler: --landmarks (selected_landmark_names)
  max_len,                    \* assembler: --max_len
  asm_pc,                     \* assembler: position in main()
  out_parent_created,         \* assembler: output_path.parent.mkdir has run
  selected_slices,            \* assembler: selected_slices
  total_selected_features,    \* assembler: total_selected_features
  json_files,                 \* assembler: json_files
  file_idx,                   \* assembler: number of files the loop has handled
  opened,                     \* assembler: the files opened so far
  selected_features_sequence, \* assembler: selected_features_sequence of the last file
  all_processed_sequences,    \* assembler: all_processed_sequences
  asm_log,                    \* assembler: one entry per file handled, and the final message
  output_file,                \* assembler: the .npy artifact
  batch_dir,   \* recorders: the files of process_video's output_dir, by name
  data_dir,    \* recorders: the files of process_video_file's output_dir, by name
  now,         \* recorders: datetime.now(), in whole seconds
  rec_last,    \* recorders: the last call: its video, how it ended, the file it
               \* wrote and the frame count it printed (-1: none printed)
  detector_instances,  \* app: the Holistic instances created so far
  handler,             \* app: per client, the handler of its process_frame event
  running,             \* app: the client whose handler holds the thread, 0 for the hub
  last_emit            \* app: the last frame_result emitted

encVars == <<results, encoder, landmarks>>
asmArgs == <<input_dir, landmark_names, max_len>>
asmLocals == <<selected_features_sequence>>
asmVars == <<input_dir, landmark_names, max_len, asm_pc, out_parent_created, selected_slices,
             total_selected_features, json_files, file_idx, opened,
             selected_features_sequence, all_processed_sequences, asm_log, output_file>>
recVars == <<batch_dir, data_dir, now, rec_last>>
appVars == <<detector_instances, handler, running, last_emit>>
vars == <<encVars, asmVars, recVars, appVars>>

NoOutput == [state |-> "none", data |-> <<>>]

\* the encoder is not in use
EncIdle ==
  /\ results = [pose_landmarks |-> NoLandmarks, face_landmarks |-> NoLandmarks,
                left_hand_landmarks |-> NoLandmarks, right_hand_landmarks |-> NoLandmarks]
  /\ encoder = "idle"
  /\ landmarks = <<>>

\* main() has not been entered: everything it assigns is still empty
AsmFresh ==
  /\ asm_pc = "start"
  /\ out_parent_created = FALSE
  /\ selected_slices = <<>>
  /\ total_selected_features = 0
  /\ json_files = <<>>
  /\ file_idx = 0
  /\ opened = {}
  /\ selected_features_sequence = <<>>
  /\ all_processed_sequences = <<>>
  /\ asm_log = <<>>
  /\ output_file = NoOutput

\* the assembler is not in use
AsmIdle ==
  /\ input_dir = [is_dir |-> FALSE, files |-> <<>>]
  /\ landmark_names = <<"Pose">>
  /\ max_len = 1
  /\ AsmFresh

\* no recording has been made: both output directories are empty
RecFresh ==
  /\ batch_dir = <<>>
  /\ data_dir = <<>>
  /\ now = 0
  /\ rec_last = [fn |-> "none", video |-> <<>>, outcome |-> "none", path |-> <<>>,
                 frame_count |-> -1]

Clients == 1..MaxClients

IdleHandler == [pc |-> "idle", data |-> [kind |-> "none"], instance |-> -1]

\* app.py has been loaded (lines 19-29): the one Holistic instance exists, no
\* event has arrived
AppFresh ==
  /\ detector_instances = {0}
  /\ handler = [c \in Clients |-> IdleHandler]
  /\ running = 0
  /\ last_emit = [to |-> 0, landmarks |-> <<>>, error |-> "none"]

(* ---------------- the feature vector encoder --------------------------- *)
EncInit ==
  /\ results \in DetectorOutputs
  /\ encoder = "none"
  /\ landmarks = <<>>

\* utils.extract_landmarks(results)
EncodeUtils ==
  /\ encoder = "none"
  /\ landmarks' = extract_landmarks(results)
  /\ encoder' = "utils"
  /\ UNCHANGED <<results, asmVars, recVars, appVars>>

\* batch_process_videos.extract_landmarks(results)
EncodeBatch ==
  /\ encoder = "none"
  /\ landmarks' = batch_extract_landmarks(results)
  /\ encoder' = "batch"
  /\ UNCHANGED <<results, asmVars, recVars, appVars>>

EncNext == EncodeUtils \/ EncodeBatch

InitEncoder == EncInit /\ AsmIdle /\ RecFresh /\ AppFresh

SpecEncoder == InitEncoder /\ [][EncNext]_vars

(* ---------------- the dataset assembler: create_npy_dataset.main -------- *)
AsmInit ==
  /\ input_dir \in InputDirs
  /\ landmark_names \in LandmarkArgs
  /\ max_len \in MaxLenArgs
  /\ AsmFresh

\* (variant of CheckArguments: --max_len is not checked)
CheckArgumentsNoMaxLen ==
  /\ asm_pc = "start"
  /\ IF ~input_dir.is_dir
     THEN /\ asm_pc' = "exit1"
          /\ asm_log' = Append(asm_log, "input_dir_not_found")
          /\ UNCHANGED out_parent_created
     ELSE /\ asm_pc' = "select"
          /\ out_parent_created' = TRUE
          /\ UNCHANGED asm_log
  /\ UNCHANGED <<encVars, recVars, appVars, asmArgs, asmLocals, selected_slices, total_selected_features,
                 json_files, file_idx, opened, all_processed_sequences, output_file>>

\* lines 45-59: the input directory and --max_len are checked, then the
\* directory of the output file is created
CheckArguments ==
  /\ asm_pc = "start"
  /\ IF ~input_dir.is_dir
     THEN /\ asm_pc' = "exit1"
          /\ asm_log' = Append(asm_log, "input_dir_not_found")
          /\ UNCHANGED out_parent_created
     ELSE IF max_len <= 0
     THEN /\ asm_pc' = "exit1"
          /\ asm_log' = Append(asm_log, "max_len_not_positive")
          /\ UNCHANGED out_parent_created
     ELSE /\ asm_pc' = "select"
          /\ out_parent_created' = TRUE
          /\ UNCHANGED asm_log
  /\ UNCHANGED <<encVars, recVars, appVars, asmArgs, asmLocals, selected_slices, total_selected_features,
                 json_files, file_idx, opened, all_processed_sequences, output_file>>

\* lines 61-74: the slices and the total width of the selection
DetermineSelected ==
  /\ asm_pc = "select"
  /\ selected_slices' = SlicesOf(landmark_names)
  /\ total_selected_features' = SumFeatures(SlicesOf(landmark_names))
  /\ IF SumFeatures(SlicesOf(landmark_names)) = 0
     THEN /\ asm_pc' = "exit1"
          /\ asm_log' = Append(asm_log, "no_features_selected")
     ELSE /\ asm_pc' = "find"
          /\ UNCHANGED asm_log
  /\ UNCHANGED <<encVars, recVars, appVars, asmArgs, asmLocals, out_parent_created, json_files, file_idx,
                 opened, all_processed_sequences, output_file>>

\* lines 77-84: the *.json files of the directory, sorted
FindFiles ==
  /\ asm_pc = "find"
  /\ json_files' = Sorted(DOMAIN input_dir.files)
  /\ IF DOMAIN input_dir.files = {}
     THEN /\ asm_pc' = "exit1"
          /\ asm_log' = Append(asm_log, "no_json_files")
     ELSE /\ asm_pc' = "loop"
          /\ UNCHANGED asm_log
  /\ UNCHANGED <<encVars, recVars, appVars, asmArgs, asmLocals, out_parent_created, selected_slices,
                 total_selected_features, file_idx, opened, all_processed_sequences,
                 output_file>>

\* lines 86-135: one pass of the loop over json_files
ProcessFile ==
  /\ asm_pc = "loop"
  /\ file_idx < Len(json_files)
  /\ LET json_file == json_files[file_idx + 1]
         file == input_dir.files[json_file]
     IN /\ opened' = opened \cup {json_file}
        /\ IF LoadOutcome(file) # "ok"
           THEN /\ asm_log' = Append(asm_log, <<json_file, LoadOutcome(file)>>)
                /\ selected_features_sequence' = <<>>
                /\ UNCHANGED all_processed_sequences
           ELSE \E array \in {np_array_float32(file.data)} :
                \E selected \in {SelectFeatures(array, selected_slices)} :
                  /\ selected_features_sequence' = selected
                  /\ IF Len(selected[1]) # total_selected_features  \* the assert of line 110
                     THEN /\ asm_log' = Append(asm_log, <<json_file, "error_processing">>)
                          /\ UNCHANGED all_processed_sequences
                     ELSE \E processed \in {PadOrTruncate(selected, max_len,
                                                          total_selected_features)} :
                            /\ asm_log' = Append(asm_log, <<json_file, "appended">>)
                            /\ all_processed_sequences' =
                                 Append(all_processed_sequences, processed)
  /\ file_idx' = file_idx + 1
  /\ UNCHANGED <<encVars, recVars, appVars, asmArgs, asm_pc, out_parent_created, selected_slices,
                 total_selected_features, json_files, output_file>>

\* (variant of StackAndSave: an empty list of sequences is saved as well)
StackAndSaveAlways ==
  /\ asm_pc = "loop"
  /\ file_idx = Len(json_files)
  /\ \E saved \in BOOLEAN :
       IF saved
       THEN /\ output_file' = [state |-> "complete", data |-> all_processed_sequences]
            /\ asm_pc' = "done"
            /\ asm_log' = Append(asm_log, "dataset_saved")
       ELSE /\ \E st \in {"none", "partial"} : output_file' = [state |-> st, data |-> <<>>]
            /\ asm_pc' = "exit1"
            /\ asm_log' = Append(asm_log, "error_saving")
  /\ UNCHANGED <<encVars, recVars, appVars, asmArgs, asmLocals, out_parent_created, selected_slices,
                 total_selected_features, json_files, file_idx, opened,
                 all_processed_sequences>>

\* lines 137-154: nothing to stack is an error; otherwise np.stack and np.save,
\* which may fail
StackAndSave ==
  /\ asm_pc = "loop"
  /\ file_idx = Len(json_files)
  /\ IF all_processed_sequences = <<>>
     THEN /\ asm_pc' = "exit1"
          /\ asm_log' = Append(asm_log, "no_valid_sequences")
          /\ UNCHANGED output_file
     ELSE \E saved \in BOOLEAN :
            IF saved
            THEN /\ output_file' = [state |-> "complete", data |-> all_processed_sequences]
                 /\ asm_pc' = "done"
                 /\ asm_log' = Append(asm_log, "dataset_saved")
            ELSE /\ \E st \in {"none", "partial"} : output_file' = [state |-> st, data |-> <<>>]
                 /\ asm_pc' = "exit1"
                 /\ asm_log' = Append(asm_log, "error_saving")
  /\ UNCHANGED <<encVars, recVars, appVars, asmArgs, asmLocals, out_parent_created, selected_slices,
                 total_selected_features, json_files, file_idx, opened,
                 all_processed_sequences>>

AsmNext == CheckArguments \/ DetermineSelected \/ FindFiles \/ ProcessFile \/ StackAndSave

InitAssembler == AsmInit /\ EncIdle /\ RecFresh /\ AppFresh

SpecAssembler == InitAssembler /\ [][AsmNext]_vars

(* ---------------- the sequence recorders -------------------------------- *)
\* an image of a video: what matters of it is which groups the detector finds;
\* the i-th frame of a video shows a body on the odd frames and nothing on the even ones
Image(i) == [shows |-> IF i % 2 = 1 THEN {"Pose", "LeftHand"} ELSE {}]

\* holistic.process(image_rgb): the groups found, each with its full cardinality
holistic_process(image) ==
  LET field(g) == IF g \in image.shows THEN LandmarkList(g, NumLandmarks(g)) ELSE NoLandmarks
  IN [pose_landmarks |-> field("Pose"), face_landmarks |-> field("Face"),
      left_hand_landmarks |-> field("LeftHand"), right_hand_landmarks |-> field("RightHand")]

\* a video file: the name without extension, whether cv2 can open it, its frames
Stems == {"a"}
Videos ==
  {[stem |-> st, opens |-> FALSE, frames |-> <<>>] : st \in Stems}
    \cup {[stem |-> st, opens |-> TRUE, frames |-> [i \in 1..n |-> Image(i)]] :
            st \in Stems, n \in 0..MaxVideoFrames}

\* how open(path, 'w') and json.dump can end
SaveOutcomes == {"saved", "open_failed", "dump_failed"}

\* the directory after open(path, 'w') and json.dump(sequence_data, f)
Written(dir, path, sequence_data, save) ==
  IF save = "open_failed" THEN dir
  ELSE [q \in DOMAIN dir \cup {path} |->
          IF q = path
          THEN IF save = "saved" THEN [complete |-> TRUE, data |-> sequence_data]
               ELSE [complete |-> FALSE, data |-> <<>>]
          ELSE dir[q]]

\* what a call of a recorder leaves behind when it wrote no file
NoFile(fn, video, outcome) ==
  [fn |-> fn, video |-> video, outcome |-> outcome, path |-> <<>>, frame_count |-> -1]

\* (variant of batch_record_frames: the newest frame is put in front)
RECURSIVE batch_record_frames_prepend(_, _, _)
batch_record_frames_prepend(frames, sequence_data, frame_count) ==
  IF frames = <<>>
  THEN [sequence_data |-> sequence_data, frame_count |-> frame_count]
  ELSE batch_record_frames_prepend(
         Tail(frames),
         <<batch_extract_landmarks(holistic_process(Head(frames)))>> \o sequence_data,
         frame_count + 1)

\* the while loop of process_video (lines 76-91): cap.read() until it reports
\* no frame; every frame read is detected, encoded, appended and counted
RECURSIVE batch_record_frames(_, _, _)
batch_record_frames(frames, sequence_data, frame_count) ==
  IF frames = <<>>
  THEN [sequence_data |-> sequence_data, frame_count |-> frame_count]
  ELSE batch_record_frames(
         Tail(frames),
         Append(sequence_data, batch_extract_landmarks(holistic_process(Head(frames)))),
         frame_count + 1)

\* the while loop of process_video_file (lines 66-79)
RECURSIVE record_frames(_, _)
record_frames(frames, sequence_data) ==
  IF frames = <<>>
  THEN sequence_data
  ELSE record_frames(Tail(frames),
                     Append(sequence_data, extract_landmarks(holistic_process(Head(frames)))))

\* batch_process_videos.process_video(video_path, output_dir, holistic_model)
process_video(video) ==
  /\ IF video.stem \in DOMAIN batch_dir
     THEN /\ rec_last' = NoFile("process_video", video, "skipped_exists")
          /\ UNCHANGED batch_dir
     ELSE IF ~video.opens
     THEN /\ rec_last' = NoFile("process_video", video, "source_unavailable")
          /\ UNCHANGED batch_dir
     ELSE \E rec \in {batch_record_frames(video.frames, <<>>, 0)} :
            IF rec.sequence_data = <<>>
            THEN /\ rec_last' = NoFile("process_video", video, "empty_sequence")
                 /\ UNCHANGED batch_dir
            ELSE \E save \in SaveOutcomes :
                   /\ batch_dir' = Written(batch_dir, video.stem, rec.sequence_data, save)
                   /\ rec_last' =
                        IF save = "saved"
                        THEN [fn |-> "process_video", video |-> video, outcome |-> save,
                              path |-> video.stem, frame_count |-> rec.frame_count]
                        ELSE NoFile("process_video", video, save)
  /\ UNCHANGED <<encVars, asmVars, appVars, data_dir, now>>

\* (variant of process_video_file: an empty sequence_data is saved like any other)
process_video_file_saves_empty(video) ==
  /\ IF ~video.opens
     THEN /\ rec_last' = NoFile("process_video_file", video, "source_unavailable")
          /\ UNCHANGED data_dir
     ELSE \E sequence_data \in {record_frames(video.frames, <<>>)} :
          \E save \in SaveOutcomes :
            /\ data_dir' = Written(data_dir, <<video.stem, now>>, sequence_data, save)
            /\ rec_last' =
                 IF save = "saved"
                 THEN [fn |-> "process_video_file", video |-> video, outcome |-> save,
                       path |-> <<video.stem, now>>, frame_count |-> -1]
                 ELSE NoFile("process_video_file", video, save)
  /\ UNCHANGED <<encVars, asmVars, appVars, batch_dir, now>>

\* utils.process_video_file(video_path, output_dir="data")
process_video_file(video) ==
  /\ IF ~video.opens
     THEN /\ rec_last' = NoFile("process_video_file", video, "source_unavailable")
          /\ UNCHANGED data_dir
     ELSE \E sequence_data \in {record_frames(video.frames, <<>>)} :
            IF sequence_data = <<>>
            THEN /\ rec_last' = NoFile("process_video_file", video, "empty_sequence")
                 /\ UNCHANGED data_dir
            ELSE \E save \in SaveOutcomes :
                   /\ data_dir' = Written(data_dir, <<video.stem, now>>, sequence_data, save)
                   /\ rec_last' =
                        IF save = "saved"
                        THEN [fn |-> "process_video_file", video |-> video, outcome |-> save,
                              path |-> <<video.stem, now>>, frame_count |-> -1]
                        ELSE NoFile("process_video_file", video, save)
  /\ UNCHANGED <<encVars, asmVars, appVars, batch_dir, now>>

\* a second passes: datetime.now() moves on
Tick ==
  /\ now < MaxClock
  /\ now' = now + 1
  /\ UNCHANGED <<encVars, asmVars, appVars, batch_dir, data_dir, rec_last>>

RecNext ==
  \/ \E video \in Videos : process_video(video)
  \/ \E video \in Videos : process_video_file(video)
  \/ Tick

InitRecorder == RecFresh /\ EncIdle /\ AsmIdle /\ AppFresh

SpecRecorder == InitRecorder /\ [][RecNext]_vars

(* ---------------- the real-time path: app.handle_process_frame ---------- *)
\* what a process_frame event can carry: text that does not split or decode
\* as base64, bytes cv2.imdecode cannot read, or an image
FramePayloads ==
  {[kind |-> "malformed"], [kind |-> "undecodable"]}
    \cup {[kind |-> "image", image |-> Image(i)] : i \in {1, 2}}

\* A process_frame event of client c arrives. The server runs with
\* async_mode='eventlet' (line 22): the event is read when the hub runs, and
\* its handler is a green thread that waits for the hub to switch to it.
ReceiveFrame(c, data) ==
  /\ running = 0
  /\ handler[c].pc = "idle"
  /\ handler' = [handler EXCEPT ![c] = [pc |-> "spawned", data |-> data, instance |-> -1]]
  /\ UNCHANGED <<encVars, asmVars, recVars, detector_instances, running, last_emit>>

\* (variant of EnterHandler: the thread is given up while the detector works)
EnterHandlerYielding(c) ==
  /\ running = 0
  /\ handler[c].pc = "spawned"
  /\ IF handler[c].data.kind = "malformed"
     THEN /\ last_emit' = [to |-> c, landmarks |-> <<>>, error |-> "exception"]
          /\ handler' = [handler EXCEPT ![c] = IdleHandler]
     ELSE IF handler[c].data.kind = "undecodable"
     THEN /\ last_emit' = [to |-> c, landmarks |-> <<>>, error |-> "Empty frame received"]
          /\ handler' = [handler EXCEPT ![c] = IdleHandler]
     ELSE /\ handler' = [handler EXCEPT ![c].pc = "detecting", ![c].instance = 0]
          /\ UNCHANGED last_emit
  /\ UNCHANGED running
  /\ UNCHANGED <<encVars, asmVars, recVars, detector_instances>>

\* The hub switches to the handler of client c, which runs lines 106-122
\* without giving up the thread: the payload is decoded (a failure is
\* emitted as an error and ends the handler) and holistic_model.process,
\* the instance made at startup, is entered.
EnterHandler(c) ==
  /\ running = 0
  /\ handler[c].pc = "spawned"
  /\ IF handler[c].data.kind = "malformed"
     THEN /\ last_emit' = [to |-> c, landmarks |-> <<>>, error |-> "exception"]
          /\ handler' = [handler EXCEPT ![c] = IdleHandler]
          /\ UNCHANGED running
     ELSE IF handler[c].data.kind = "undecodable"
     THEN /\ last_emit' = [to |-> c, landmarks |-> <<>>, error |-> "Empty frame received"]
          /\ handler' = [handler EXCEPT ![c] = IdleHandler]
          /\ UNCHANGED running
     ELSE /\ handler' = [handler EXCEPT ![c].pc = "detecting", ![c].instance = 0]
          /\ running' = c
          /\ UNCHANGED last_emit
  /\ UNCHANGED <<encVars, asmVars, recVars, detector_instances>>

\* holistic_model.process returns, or raises; lines 124-134: the landmarks
\* are extracted and emitted, the handler ends and the hub runs again
LeaveDetector(c) ==
  /\ handler[c].pc = "detecting"
  /\ \E raised \in BOOLEAN :
       last_emit' =
         IF raised
         THEN [to |-> c, landmarks |-> <<>>, error |-> "exception"]
         ELSE [to |-> c,
               landmarks |-> extract_landmarks(holistic_process(handler[c].data.image)),
               error |-> "none"]
  /\ handler' = [handler EXCEPT ![c] = IdleHandler]
  /\ running' = 0
  /\ UNCHANGED <<encVars, asmVars, recVars, detector_instances>>

AppNext ==
  \/ \E c \in Clients, data \in FramePayloads : ReceiveFrame(c, data)
  \/ \E c \in Clients : EnterHandler(c)
  \/ \E c \in Clients : LeaveDetector(c)

InitApp == AppFresh /\ EncIdle /\ AsmIdle /\ RecFresh

SpecApp == InitApp /\ [][AppNext]_vars

(* ---------------- properties of the encoder ---------------------------- *)
\* the four blocks of the detector output, in canonical order, no size check
RawBlocks ==
  GroupBlock(results.pose_landmarks, NUM_POSE_LANDMARKS)
    \o GroupBlock(results.face_landmarks, NUM_FACE_LANDMARKS)
    \o GroupBlock(results.left_hand_landmarks, NUM_HAND_LANDMARKS)
    \o GroupBlock(results.right_hand_landmarks, NUM_HAND_LANDMARKS)

\* C1: whatever the detector output (groups present or absent, a present
\* group with any number of points), the vector extract_landmarks returns has
\* exactly 1629 entries: the entries of the concatenation as far as it goes,
\* trailing zeros after a short one, the tail of a long one cut off.
C1_LengthAlways1629 ==
  encoder # "none" =>
    LET raw == RawBlocks
        n == Len(raw)
    IN /\ Len(landmarks) = 1629
       /\ \A k \in 1..1629 : landmarks[k] = IF k <= n THEN raw[k] ELSE 0

\* a detector output whose concatenation is too long (Pose absent, a group
\* with one point too many) has been encoded
C1_Witness ==
  /\ encoder = "batch"
  /\ ~results.pose_landmarks.present
  /\ Len(RawBlocks) > 1629

FieldOf(g) ==
  CASE g = "Pose" -> results.pose_landmarks
    [] g = "Face" -> results.face_landmarks
    [] g = "LeftHand" -> results.left_hand_landmarks
    [] g = "RightHand" -> results.right_hand_landmarks

\* first and last index (0-based, inclusive) of each group's block
BlockFirst(g) ==
  CASE g = "Pose" -> 0 [] g = "Face" -> 99 [] g = "LeftHand" -> 1503 [] g = "RightHand" -> 1566
BlockLast(g) ==
  CASE g = "Pose" -> 98 [] g = "Face" -> 1502 [] g = "LeftHand" -> 1565 [] g = "RightHand" -> 1628

WellSized == \A g \in Groups : FieldOf(g).present => Len(FieldOf(g).landmark) = NumLandmarks(g)

\* C2: when every present group has its fixed cardinality, each group's
\* block sits at its fixed place and is the group's (x,y,z) triples in point
\* order if the group is present and zeros if it is absent, whatever the
\* other groups are; nothing present gives 1629 zeros, only Pose present
\* gives 99 point values followed by 1530 zeros.
C2_FixedBlocks ==
  (encoder # "none" /\ WellSized) =>
    /\ \A g \in Groups :
         LET field == FieldOf(g)
             first == BlockFirst(g)
         IN \A k \in first..BlockLast(g) :
              landmarks[k + 1] =
                IF field.present
                THEN LET p == field.landmark[((k - first) \div 3) + 1]
                         c == (k - first) % 3
                     IN IF c = 0 THEN p.x ELSE IF c = 1 THEN p.y ELSE p.z
                ELSE 0
    /\ (\A g \in Groups : ~FieldOf(g).present) => landmarks = [k \in 1..1629 |-> 0]
    /\ (\A g \in Groups : FieldOf(g).present <=> g = "Pose") =>
         /\ \A k \in 1..99 : landmarks[k] # 0
         /\ \A k \in 100..1629 : landmarks[k] = 0

\* the left hand alone (21 points) has been encoded: its block is preceded
\* by the zero blocks of the absent Pose and Face
C2_Witness ==
  /\ encoder = "utils"
  /\ WellSized
  /\ \A g \in Groups : FieldOf(g).present <=> g = "LeftHand"

(* ---------------- properties of the assembler --------------------------- *)
\* a stored sequence: a non-empty list of frames of exactly 1629 numbers
IsSequenceFile(file) ==
  /\ file.kind = "list"
  /\ file.data # <<>>
  /\ \A j \in 1..Len(file.data) : Len(file.data[j]) = 1629

\* the file the loop handled last; its normalized sequence is the last one appended
LastFile == input_dir.files[json_files[file_idx]]

LastIsSequence == file_idx > 0 /\ IsSequenceFile(LastFile)

\* length of a group's sub-range, and where the i-th chosen group starts in the output
BlockLen(g) == BlockLast(g) - BlockFirst(g) + 1
RECURSIVE OutputOffset(_, _)
OutputOffset(names, i) ==
  IF i = 1 THEN 0 ELSE OutputOffset(names, i - 1) + BlockLen(names[i - 1])

\* C3: for a stored sequence of 1629-feature frames and any selection, the
\* selector's output has the same number of frames in the same order, each
\* of width the sum of the chosen groups' lengths, and holds the chosen
\* groups' sub-ranges Pose [0,99), Face [99,1503), LeftHand [1503,1566),
\* RightHand [1566,1629) of the frame (as loaded, in single precision) one
\* after the other in the order the caller gave them.
C3_SelectorLayout ==
  LastIsSequence =>
    /\ Len(selected_features_sequence) = Len(LastFile.data)
    /\ \A j \in 1..Len(selected_features_sequence) :
         /\ Len(selected_features_sequence[j])
              = OutputOffset(landmark_names, Len(landmark_names))
                  + BlockLen(landmark_names[Len(landmark_names)])
         /\ \A i \in 1..Len(landmark_names) :
              \A off \in {OutputOffset(landmark_names, i)} :
              \A first \in {BlockFirst(landmark_names[i])} :
                \A k \in 1..BlockLen(landmark_names[i]) :
                  selected_features_sequence[j][off + k]
                    = ToFloat32(LastFile.data[j][first + k])

\* all four groups in reverse order have been selected from a two-frame file
C3_Witness ==
  /\ LastIsSequence
  /\ landmark_names = <<"RightHand", "LeftHand", "Face", "Pose">>
  /\ Len(selected_features_sequence) = 2
  /\ selected_features_sequence[2][1] = ToFloat32(LastFile.data[2][1567])

\* every number of the file is one a float32 holds
Float32Exact(file) ==
  \A j \in 1..Len(file.data) : \A k \in 1..Len(file.data[j]) :
    ToFloat32(file.data[j][k]) = file.data[j][k]

\* C4 as stated: selecting all four groups gives back every stored frame unchanged
C4_RoundTripUnchanged ==
  (LastIsSequence /\ landmark_names = <<"Pose", "Face", "LeftHand", "RightHand">>) =>
    selected_features_sequence = LastFile.data

\* C4 (amended): selecting all four groups in canonical order gives back, for
\* every frame, the 1629 numbers of the stored frame in their places, each
\* converted to float32; the frame is unchanged exactly when its numbers are
\* float32 values already.
C4_RoundTripFloat32 ==
  (LastIsSequence /\ landmark_names = <<"Pose", "Face", "LeftHand", "RightHand">>) =>
    /\ Len(selected_features_sequence) = Len(LastFile.data)
    /\ \A j \in 1..Len(selected_features_sequence) :
         /\ Len(selected_features_sequence[j]) = 1629
         /\ \A k \in 1..1629 :
              selected_features_sequence[j][k] = ToFloat32(LastFile.data[j][k])
    /\ Float32Exact(LastFile) <=> selected_features_sequence = LastFile.data

\* all four groups have been selected from a file of float32 numbers
C4_Witness ==
  /\ LastIsSequence
  /\ landmark_names = <<"Pose", "Face", "LeftHand", "RightHand">>
  /\ Float32Exact(LastFile)
  /\ Len(selected_features_sequence) = 2

\* C5: for a selected sequence of n >= 1 frames and max_len L > 0 the
\* normalizer returns L frames of the same width, frame i the input's frame i
\* for i <= min(n, L) and a zero vector after that; n = L leaves the sequence
\* as it is, n = L - 1 adds one zero frame, n = L + 1 drops the last frame.
C5_Normalizer ==
  (LastIsSequence /\ max_len > 0) =>
    /\ all_processed_sequences # <<>>
    /\ \A n \in {Len(selected_features_sequence)} :
       \A processed_sequence \in {all_processed_sequences[Len(all_processed_sequences)]} :
         /\ n >= 1
         /\ Len(processed_sequence) = max_len
         /\ \A i \in 1..max_len :
              /\ Len(processed_sequence[i]) = Len(selected_features_sequence[1])
              /\ i <= n => processed_sequence[i] = selected_features_sequence[i]
              /\ i > n =>
                   \A k \in 1..Len(processed_sequence[i]) : processed_sequence[i][k] = 0
         /\ n = max_len => processed_sequence = selected_features_sequence
         /\ n = max_len + 1 =>
              processed_sequence = SubSeq(selected_features_sequence, 1, n - 1)

\* a sequence one frame short of max_len has been padded
C5_Witness ==
  /\ LastIsSequence
  /\ Len(selected_features_sequence) = max_len - 1
  /\ Len(all_processed_sequences[Len(all_processed_sequences)]) = max_len

\* the files of the directory that are stored sequences
SequenceFiles == {f \in DOMAIN input_dir.files : IsSequenceFile(input_dir.files[f])}

\* C6: after a successful run the dataset has one instance per surviving
\* file, in the sorted order of the file names, every instance of max_len
\* frames of the selection's width, and instance i is the selected and
\* normalized sequence of the i-th surviving file.
C6_DatasetShapeAndOrder ==
  asm_pc = "done" =>
    /\ output_file.state = "complete"
    /\ Len(output_file.data) = Cardinality(SequenceFiles)
    /\ \A i \in 1..Len(output_file.data) :
         /\ Len(output_file.data[i]) = max_len
         /\ \A j \in 1..max_len :
              Len(output_file.data[i][j])
                = OutputOffset(landmark_names, Len(landmark_names))
                    + BlockLen(landmark_names[Len(landmark_names)])
    /\ \A f \in SequenceFiles :
         \A i \in {Cardinality({g \in SequenceFiles : g <= f})} :
           output_file.data[i]
             = PadOrTruncate(SelectFeatures(np_array_float32(input_dir.files[f].data),
                                            SlicesOf(landmark_names)),
                             max_len,
                             SumFeatures(SlicesOf(landmark_names)))

\* a dataset of two instances from two different files has been written
C6_Witness ==
  /\ asm_pc = "done"
  /\ Len(output_file.data) = 2
  /\ output_file.data[1] # output_file.data[2]

\* C7: a file with any frame that does not have exactly 1629 features adds no
\* instance, and the files after it are still handled: the instances so far
\* are as many as the stored sequences among the files handled, a run ends
\* only after every file was opened, and a finished dataset of a batch of N
\* files with c rejected ones has N - c instances.
C7_MalformedFileSkipped ==
  asm_pc \in {"loop", "done", "exit1"} /\ json_files # <<>> =>
    /\ Len(all_processed_sequences)
         = Cardinality({i \in 1..file_idx : IsSequenceFile(input_dir.files[json_files[i]])})
    /\ \A i \in 1..file_idx :
         ~IsSequenceFile(input_dir.files[json_files[i]]) => asm_log[i][2] # "appended"
    /\ asm_pc \in {"done", "exit1"} =>
         /\ file_idx = Cardinality(DOMAIN input_dir.files)
         /\ opened = DOMAIN input_dir.files
    /\ asm_pc = "done" =>
         Len(output_file.data)
           = Cardinality(DOMAIN input_dir.files)
               - Cardinality({f \in DOMAIN input_dir.files :
                                ~IsSequenceFile(input_dir.files[f])})

\* a batch whose first file has a good first frame and a bad second frame, and
\* whose second file is a stored sequence, has produced a one-instance dataset
C7_Witness ==
  /\ asm_pc = "done"
  /\ Len(json_files) = 2
  /\ Len(input_dir.files[1].data) = 2
  /\ Len(input_dir.files[1].data[1]) = 1629
  /\ Len(input_dir.files[1].data[2]) # 1629
  /\ Len(output_file.data) = 1

\* C9: when no file of the directory survives, the run ends in failure (with
\* "no valid sequences" once the loop has been through a non-empty directory)
\* and the artifact is never written.
C9_NoValidSequences ==
  SequenceFiles = {} =>
    /\ output_file = NoOutput
    /\ asm_pc # "done"
    /\ (asm_pc = "exit1" /\ json_files # <<>>) =>
         asm_log[Len(asm_log)] = "no_valid_sequences"

\* a run over two files, none of them usable, has ended
C9_Witness ==
  /\ asm_pc = "exit1"
  /\ Len(json_files) = 2
  /\ SequenceFiles = {}
  /\ file_idx = 2

\* C10: with max_len <= 0 the run stops at the argument check: no file is
\* ever opened, no directory created, no slice computed, no file list made
\* and no artifact written.
C10_MaxLenRejectedFirst ==
  max_len <= 0 =>
    /\ asm_pc \in {"start", "exit1"}
    /\ opened = {}
    /\ ~out_parent_created
    /\ selected_slices = <<>>
    /\ json_files = <<>>
    /\ all_processed_sequences = <<>>
    /\ output_file = NoOutput
    /\ (asm_pc = "exit1" /\ input_dir.is_dir) => asm_log = <<"max_len_not_positive">>

\* a run with max_len = 0 over a directory holding a stored sequence has been rejected
C10_Witness ==
  /\ max_len = 0
  /\ asm_pc = "exit1"
  /\ SequenceFiles # {}

(* ---------------- properties of the recorders --------------------------- *)
\* the completed files of a directory are all there, unchanged, after the step
CompletedKept(dir, dirAfter) ==
  \A path \in DOMAIN dir :
    dir[path].complete => (path \in DOMAIN dirAfter /\ dirAfter[path] = dir[path])

\* C8: a sequence file that a recording completed is never overwritten or
\* changed by a later recording, batch or upload, whatever the video's name.
C8_WrittenOnce ==
  [][CompletedKept(batch_dir, batch_dir') /\ CompletedKept(data_dir, data_dir')]_vars

\* C11: a recording whose source cannot be opened or yields no frame writes
\* nothing, in process_video and in process_video_file alike: such a call
\* leaves both directories as they were, a step that changes a directory is
\* a call on a video that opened and gave at least one frame, and no
\* completed sequence file is empty.
C11_NoFileWithoutFrames ==
  [][/\ rec_last'.outcome \in {"source_unavailable", "empty_sequence"} =>
          (batch_dir' = batch_dir /\ data_dir' = data_dir)
     /\ (batch_dir' # batch_dir \/ data_dir' # data_dir) =>
          (rec_last'.video.opens /\ Len(rec_last'.video.frames) >= 1)
     /\ \A path \in DOMAIN batch_dir' :
          batch_dir'[path].complete => Len(batch_dir'[path].data) >= 1
     /\ \A path \in DOMAIN data_dir' :
          data_dir'[path].complete => Len(data_dir'[path].data) >= 1]_vars

\* an upload of a video without frames has failed and left no file, after a
\* batch recording that did write one
C11_Witness ==
  /\ rec_last.fn = "process_video_file"
  /\ rec_last.outcome = "empty_sequence"
  /\ rec_last.video.opens
  /\ data_dir = <<>>
  /\ batch_dir # <<>>

\* the sequence file the last call wrote
LastRecording ==
  IF rec_last.fn = "process_video" THEN batch_dir[rec_last.path] ELSE data_dir[rec_last.path]

\* C12: after a successful recording of a video with frames f1..fn the
\* sequence file holds exactly n vectors, the i-th one the encoding of the
\* detector's output for fi (nothing skipped, doubled or out of order), and
\* the frame count process_video prints is the length of the sequence.
C12_OneVectorPerFrameInOrder ==
  rec_last.outcome = "saved" =>
    \A file \in {LastRecording} :
      /\ file.complete
      /\ Len(file.data) = Len(rec_last.video.frames)
      /\ \A i \in 1..Len(rec_last.video.frames) :
           file.data[i] = extract_landmarks(holistic_process(rec_last.video.frames[i]))
      /\ rec_last.fn = "process_video" => rec_last.frame_count = Len(file.data)

\* a batch recording of a video of two different frames has been saved
C12_Witness ==
  /\ rec_last.fn = "process_video"
  /\ rec_last.outcome = "saved"
  /\ Len(rec_last.video.frames) = 2
  /\ rec_last.video.frames[1] # rec_last.video.frames[2]
  /\ batch_dir[rec_last.path].data[1] # batch_dir[rec_last.path].data[2]

(* ---------------- properties of the real-time path ---------------------- *)
\* the handlers that are inside a call of a detector instance
InDetector(instance) ==
  {c \in Clients : handler[c].pc = "detecting" /\ handler[c].instance = instance}

\* C13: however the process_frame events of the clients interleave, every
\* frame is processed by the one detector instance made at startup, and at
\* no time are two calls of that instance in progress.
C13_OneDetectorOneCallAtATime ==
  /\ detector_instances = {0}
  /\ \A c \in Clients : handler[c].pc = "detecting" => handler[c].instance = 0
  /\ Cardinality(InDetector(0)) <= 1

\* one client's frame is inside the detector while another client's event is waiting
C13_Witness ==
  \E c1, c2 \in Clients :
    /\ c1 # c2
    /\ handler[c1].pc = "detecting"
    /\ handler[c2].pc = "spawned"
    /\ handler[c2].data.kind = "image"

====
